---- MODULE Spec2Model ----
(***************************************************************************)
(* Model of gemini/app.py: a Flask application with two routes.            *)
(*                                                                         *)
(*   line 3      app = Flask(__name__)                                     *)
(*   lines 5-7   @app.route('/')            def index()                    *)
(*   lines 9-19  @app.route('/upload', methods=['GET', 'POST'])            *)
(*                                          def upload_file()              *)
(*   lines 21-22 if __name__ == '__main__': app.run(host, port, debug)     *)
(*                                                                         *)
(* The module body is executed top to bottom (pc).  Once it is loaded the  *)
(* application answers requests: through app.run's server when the module  *)
(* is the main program, through whatever imported it otherwise.  Requests  *)
(* are handled concurrently (one connection each), so any number up to     *)
(* MaxConn may be in flight at once.                                       *)
(***************************************************************************)
EXTENDS Naturals, Sequences, FiniteSets

VARIABLES
    name,          \* __name__ of the module: "__main__" or its import name
    pc,            \* position in the module body
    url_map,       \* app.url_map: the rules registered by @app.route
    runs,          \* the calls of app.run made so far, each with its arguments
    pending,       \* requests received and not yet dispatched
    responses,     \* request/response pairs sent and not yet closed
    uploads,       \* files saved by the application
    transactions   \* Firefly III transactions created by the application

vars == <<name, pc, url_map, runs, pending, responses, uploads, transactions>>

\* Everything the application owns, apart from the connections themselves.
ServerState == <<name, pc, url_map, runs, uploads, transactions>>

\* The largest number of connections open at once.
MaxConn == 2

Names == {"__main__", "app"}

Paths == {"/", "/upload", "/missing"}

Methods == {"GET", "HEAD", "POST", "PUT", "DELETE", "OPTIONS"}

\* Request bodies: none, a multipart form with a file part, any other bytes.
Bodies == {"empty", "multipart_file", "raw"}

Requests == [path : Paths, method : Methods, body : Bodies]

\* The templates of the application's templates/ directory.
Templates == {"index.html", "upload.html"}

----------------------------------------------------------------------------
(* Flask's response construction, as the handlers use it.                  *)

Response(status, mimetype, body, allow) ==
    [status |-> status, mimetype |-> mimetype, body |-> body, allow |-> allow]

\* json.dumps of a dict with string keys and values, as a token sequence.
RECURSIVE dumps(_, _)
dumps(d, keys) ==
    IF keys = {} THEN <<>>
    ELSE LET k == CHOOSE x \in keys : TRUE
         IN  <<k, ":", d[k]>> \o dumps(d, keys \ {k})

\* jsonify(d): a 200 response of type application/json holding d's encoding.
jsonify(d) ==
    Response(200, "application/json", <<"{">> \o dumps(d, DOMAIN d) \o <<"}">>, {})

\* Flask turns an exception escaping a view into a 500 response.
InternalServerError(what) ==
    Response(500, "text/html", <<"error", what>>, {})

\* render_template(name, context): the page of that template with the
\* keyword arguments substituted; a missing template raises TemplateNotFound.
render_template(template, context) ==
    IF template \in Templates
    THEN Response(200, "text/html", <<"html", template>> \o context, {})
    ELSE InternalServerError("TemplateNotFound")

\* The keyword arguments a rendered page was given.
ContextOf(body) == SubSeq(body, 3, Len(body))

\* The server sends no body in answer to HEAD; status and headers stay.
Finalize(request, rv) ==
    IF request.method = "HEAD" THEN [rv EXCEPT !.body = <<>>] ELSE rv

\* What goes back on the connection: the request, the view that ran ("" when
\* the framework answered by itself) and the response.
Reply(request, handler, rv) ==
    [req |-> request, handler |-> handler, resp |-> Finalize(request, rv)]

----------------------------------------------------------------------------
(* Routing.                                                                *)

\* app.route(rule, methods=...): Flask adds OPTIONS (answered automatically)
\* and HEAD wherever GET is allowed.
add_url_rule(rule, endpoint, methods) ==
    [rule |-> rule, endpoint |-> endpoint,
     methods |-> methods \cup (IF "GET" \in methods THEN {"HEAD"} ELSE {})
                         \cup {"OPTIONS"}]

\* The decorator of line 5 had it been given methods=['GET', 'POST'].
route_index_rule_post == add_url_rule("/", "index", {"GET", "POST"})

\* The decorator of line 5: no methods argument, so GET only.
route_index_rule == add_url_rule("/", "index", {"GET"})

\* The decorator of line 9.
route_upload_rule == add_url_rule("/upload", "upload_file", {"GET", "POST"})

RulesFor(path) == {r \in url_map : r.rule = path}

AllowedMethods(path) == UNION {r.methods : r \in RulesFor(path)}

\* The endpoint the URL map matches a request to, "" when it matches none.
Endpoint(request) ==
    LET hit == {r \in RulesFor(request.path) : request.method \in r.methods}
    IN  IF hit = {} THEN "" ELSE (CHOOSE r \in hit : TRUE).endpoint

----------------------------------------------------------------------------
(* The module body.                                                        *)

Init ==
    /\ name \in Names
    /\ pc = "create_app"
    /\ url_map = {}
    /\ runs = <<>>
    /\ pending = {}
    /\ responses = {}
    /\ uploads = {}
    /\ transactions = {}

\* line 3
CreateApp ==
    /\ pc = "create_app"
    /\ url_map' = {}
    /\ pc' = "route_index"
    /\ UNCHANGED <<name, runs, pending, responses, uploads, transactions>>

\* lines 5-6
RouteIndex ==
    /\ pc = "route_index"
    /\ url_map' = url_map \cup {route_index_rule}
    /\ pc' = "route_upload"
    /\ UNCHANGED <<name, runs, pending, responses, uploads, transactions>>

\* lines 9-10
RouteUpload ==
    /\ pc = "route_upload"
    /\ url_map' = url_map \cup {route_upload_rule}
    /\ pc' = "main_guard"
    /\ UNCHANGED <<name, runs, pending, responses, uploads, transactions>>

\* The keyword arguments of the call on line 22.
run_args == [host |-> "0.0.0.0", port |-> 5000, debug |-> TRUE]

\* Line 22 without the guard of line 21: the server starts on import too.
MainGuard_unguarded ==
    /\ pc = "main_guard"
    /\ runs' = Append(runs, run_args)
    /\ pc' = IF name = "__main__" THEN "serving" ELSE "imported"
    /\ UNCHANGED <<name, url_map, pending, responses, uploads, transactions>>

\* lines 21-22: the guard, and app.run when it holds.  app.run does not
\* return while the server runs.
MainGuard ==
    /\ pc = "main_guard"
    /\ IF name = "__main__"
       THEN /\ runs' = Append(runs, run_args)
            /\ pc' = "serving"
       ELSE /\ runs' = runs
            /\ pc' = "imported"
    /\ UNCHANGED <<name, url_map, pending, responses, uploads, transactions>>

Loaded == pc \in {"serving", "imported"}

----------------------------------------------------------------------------
(* Requests.                                                               *)

\* A client connects and sends a request.
Accept(request) ==
    /\ Loaded
    /\ Cardinality(pending) + Cardinality(responses) < MaxConn
    /\ request \notin pending
    /\ pending' = pending \cup {request}
    /\ UNCHANGED <<name, pc, url_map, runs, responses, uploads, transactions>>

\* No rule has the path: 404.
NotFound(request) ==
    /\ request \in pending
    /\ RulesFor(request.path) = {}
    /\ pending' = pending \ {request}
    /\ responses' = responses \cup
          {Reply(request, "", Response(404, "text/html", <<"error", "NotFound">>, {}))}
    /\ UNCHANGED <<name, pc, url_map, runs, uploads, transactions>>

\* A rule has the path but not the method: 405 with the Allow header.
MethodNotAllowed(request) ==
    /\ request \in pending
    /\ RulesFor(request.path) # {}
    /\ request.method \notin AllowedMethods(request.path)
    /\ pending' = pending \ {request}
    /\ responses' = responses \cup
          {Reply(request, "", Response(405, "text/html",
                                       <<"error", "MethodNotAllowed">>,
                                       AllowedMethods(request.path)))}
    /\ UNCHANGED <<name, pc, url_map, runs, uploads, transactions>>

\* OPTIONS on a registered path: Flask answers without calling the view.
AutomaticOptions(request) ==
    /\ request \in pending
    /\ Endpoint(request) # ""
    /\ request.method = "OPTIONS"
    /\ pending' = pending \ {request}
    /\ responses' = responses \cup
          {Reply(request, "", Response(200, "text/html", <<>>,
                                       AllowedMethods(request.path)))}
    /\ UNCHANGED <<name, pc, url_map, runs, uploads, transactions>>

\* index rendering the other template.
index_wrong_template(request) ==
    /\ responses' = responses \cup
          {Reply(request, "index", render_template("upload.html", <<>>))}
    /\ UNCHANGED <<uploads, transactions>>

\* index handing the request's data to the template.
index_passes_request(request) ==
    /\ responses' = responses \cup
          {Reply(request, "index",
                 render_template("index.html", <<"body", request.body>>))}
    /\ UNCHANGED <<uploads, transactions>>

\* lines 6-7
index(request) ==
    /\ responses' = responses \cup
          {Reply(request, "index", render_template("index.html", <<>>))}
    /\ UNCHANGED <<uploads, transactions>>

\* upload_file with the "File validation" step of line 12 written: a POST
\* without a file part is refused.
upload_file_validates(request) ==
    /\ responses' = responses \cup
          {Reply(request, "upload_file",
                 IF request.method = "POST"
                 THEN IF request.body = "multipart_file"
                      THEN jsonify([status |-> "success"])
                      ELSE Response(400, "application/json",
                                    <<"{", "status", ":", "error", "}">>, {})
                 ELSE render_template("upload.html", <<>>))}
    /\ UNCHANGED <<uploads, transactions>>

\* upload_file with the template's name misspelt on line 19.
upload_file_typo(request) ==
    /\ responses' = responses \cup
          {Reply(request, "upload_file",
                 IF request.method = "POST"
                 THEN jsonify([status |-> "success"])
                 ELSE render_template("uplaod.html", <<>>))}
    /\ UNCHANGED <<uploads, transactions>>

\* upload_file with the "Save uploaded file" step of line 13 written.
upload_file_saves(request) ==
    /\ responses' = responses \cup
          {Reply(request, "upload_file",
                 IF request.method = "POST"
                 THEN jsonify([status |-> "success"])
                 ELSE render_template("upload.html", <<>>))}
    /\ uploads' = IF request.method = "POST"
                  THEN uploads \cup {request.body} ELSE uploads
    /\ UNCHANGED transactions

\* upload_file keeping the uploads it has seen and reporting a repeat.
upload_file_remembers(request) ==
    /\ responses' = responses \cup
          {Reply(request, "upload_file",
                 IF request.method = "POST"
                 THEN jsonify([status |-> IF request.body \in uploads
                                          THEN "duplicate" ELSE "success"])
                 ELSE render_template("upload.html", <<>>))}
    /\ uploads' = IF request.method = "POST"
                  THEN uploads \cup {request.body} ELSE uploads
    /\ UNCHANGED transactions

\* upload_file testing for GET on line 11 and falling through to the JSON.
upload_file_tests_get(request) ==
    /\ responses' = responses \cup
          {Reply(request, "upload_file",
                 IF request.method = "GET"
                 THEN render_template("upload.html", <<>>)
                 ELSE jsonify([status |-> "success"]))}
    /\ UNCHANGED <<uploads, transactions>>

\* lines 10-19
upload_file(request) ==
    /\ responses' = responses \cup
          {Reply(request, "upload_file",
                 IF request.method = "POST"
                 THEN jsonify([status |-> "success"])
                 ELSE render_template("upload.html", <<>>))}
    /\ UNCHANGED <<uploads, transactions>>

\* Flask calls the view function of the matched endpoint.
DispatchIndex(request) ==
    /\ request \in pending
    /\ request.method # "OPTIONS"
    /\ Endpoint(request) = "index"
    /\ pending' = pending \ {request}
    /\ index(request)
    /\ UNCHANGED <<name, pc, url_map, runs>>

DispatchUpload(request) ==
    /\ request \in pending
    /\ request.method # "OPTIONS"
    /\ Endpoint(request) = "upload_file"
    /\ pending' = pending \ {request}
    /\ upload_file(request)
    /\ UNCHANGED <<name, pc, url_map, runs>>

\* The client has read the response and the connection closes.
Close(reply) ==
    /\ reply \in responses
    /\ responses' = responses \ {reply}
    /\ UNCHANGED <<name, pc, url_map, runs, pending, uploads, transactions>>

Next ==
    \/ CreateApp
    \/ RouteIndex
    \/ RouteUpload
    \/ MainGuard
    \/ \E request \in Requests : Accept(request)
    \/ \E request \in Requests : NotFound(request)
    \/ \E request \in Requests : MethodNotAllowed(request)
    \/ \E request \in Requests : AutomaticOptions(request)
    \/ \E request \in Requests : DispatchIndex(request)
    \/ \E request \in Requests : DispatchUpload(request)
    \/ \E reply \in responses : Close(reply)

Spec == Init /\ [][Next]_vars

----------------------------------------------------------------------------
(* Properties.                                                             *)

\* The JSON success response: 200, application/json, {"status": "success"}.
JsonSuccess ==
    Response(200, "application/json", <<"{", "status", ":", "success", "}">>, {})

\* The page of a template rendered without arguments, as a 200 HTML response.
HtmlPage(template) == Response(200, "text/html", <<"html", template>>, {})

IsPostUpload(request) == request.path = "/upload" /\ request.method = "POST"

\* C1: every POST to /upload, whatever its body, is routed to upload_file and
\* answered with status 200 and the JSON body {"status": "success"}; no body
\* makes the POST branch answer anything else.
C1_PostUploadAlwaysSuccess ==
    /\ \A r \in pending : IsPostUpload(r) => Endpoint(r) = "upload_file"
    /\ \A p \in responses :
          IsPostUpload(p.req) => p.handler = "upload_file" /\ p.resp = JsonSuccess

C1_Witness ==
    \E p, q \in responses :
        /\ IsPostUpload(p.req) /\ p.req.body = "empty"
        /\ IsPostUpload(q.req) /\ q.req.body = "raw"

\* C2: every GET of /upload is answered with status 200 and the rendered
\* upload.html as an HTML page, never with the JSON success body.
C2_GetUploadRendersForm ==
    \A p \in responses :
        (p.req.path = "/upload" /\ p.req.method = "GET") =>
            /\ p.resp.status = 200
            /\ p.resp.mimetype = "text/html"
            /\ p.resp.body = <<"html", "upload.html">>
            /\ p.resp.body # JsonSuccess.body

C2_Witness ==
    \E p \in responses :
        p.req.path = "/upload" /\ p.req.method = "GET" /\ p.handler = "upload_file"

\* C3: every GET of / is answered with status 200 and the rendered
\* index.html as an HTML page.
C3_GetIndexRendersIndex ==
    \A p \in responses :
        (p.req.path = "/" /\ p.req.method = "GET") =>
            p.handler = "index" /\ p.resp = HtmlPage("index.html")

C3_Witness ==
    \E p \in responses :
        p.req.path = "/" /\ p.req.method = "GET" /\ p.req.body = "raw"

\* C4: handling a POST to /upload changes nothing the server owns: no file
\* is stored, no transaction is created, routes and configuration stay.
C4_PostUploadChangesNothing ==
    [][\A r \in pending \ pending' : IsPostUpload(r) => UNCHANGED ServerState]_vars

C4_Witness ==
    \E p \in responses :
        /\ IsPostUpload(p.req) /\ p.req.body = "multipart_file"
        /\ uploads = {} /\ transactions = {}

\* C5: handling a GET of / gives the template no parameters, leaves the
\* server's state as it was, and the page is the same whatever the request
\* carried.
C5_IndexNoParamsNoEffects ==
    [][\A r \in pending \ pending' :
          (r.path = "/" /\ r.method = "GET") =>
              /\ UNCHANGED ServerState
              /\ \E p \in responses' : p.req = r /\ p.handler = "index"
              /\ \A p \in responses' :
                    p.req = r => ContextOf(p.resp.body) = <<>>
              /\ \A p, q \in responses' :
                    (p.handler = "index" /\ q.handler = "index"
                       /\ p.req.method = "GET" /\ q.req.method = "GET")
                    => p.resp = q.resp]_vars

C5_Witness ==
    \E p, q \in responses :
        /\ p.handler = "index" /\ q.handler = "index"
        /\ p.req.method = "GET" /\ q.req.method = "GET"
        /\ p.req.body # q.req.body

\* C6: a response depends only on the request's path and method: any two
\* responses to requests with the same path and method are equal, whatever
\* was handled before or in between.
C6_ResponseDependsOnRouteAndMethod ==
    \A p, q \in responses :
        (p.req.path = q.req.path /\ p.req.method = q.req.method) =>
            p.resp = q.resp /\ p.handler = q.handler

C6_Witness ==
    \E p, q \in responses :
        /\ p # q
        /\ p.req.path = q.req.path /\ p.req.method = q.req.method
        /\ p.req.path = "/upload" /\ p.req.body = "multipart_file"

\* C7: run as the main program the module calls app.run exactly once, with
\* host 0.0.0.0, port 5000 and debug on; imported, it never calls it.
C7_ServerStartedOnlyAsMain ==
    /\ Len(runs) <= 1
    /\ name # "__main__" => runs = <<>>
    /\ (name = "__main__" /\ Loaded) =>
          runs = <<[host |-> "0.0.0.0", port |-> 5000, debug |-> TRUE]>>
    /\ (name = "__main__" /\ ~Loaded) => runs = <<>>
    /\ pc = "serving" => name = "__main__"

C7_Witness == name = "__main__" /\ pc = "serving" /\ Len(runs) = 1

\* C8: / is registered for GET only (with the HEAD and OPTIONS the framework
\* adds): a POST, PUT or DELETE to / never reaches index and is answered 405.
C8_IndexRejectsOtherMethods ==
    /\ Loaded => AllowedMethods("/") = {"GET", "HEAD", "OPTIONS"}
    /\ \A p \in responses :
          (p.req.path = "/" /\ p.req.method \in {"POST", "PUT", "DELETE"}) =>
              /\ p.handler = ""
              /\ p.resp.status = 405
              /\ p.resp.body # <<"html", "index.html">>

C8_Witness ==
    \E p \in responses : p.req.path = "/" /\ p.req.method = "POST"

\* C9: upload_file answers with the JSON success response exactly when the
\* method is POST; GET and HEAD, the only other methods to reach it, get the
\* rendered form; PUT and DELETE never reach it.
C9_JsonIffPost ==
    \A p \in responses :
        /\ p.handler = "upload_file" =>
              /\ p.req.method \in {"GET", "HEAD", "POST"}
              /\ (p.resp = JsonSuccess) <=> (p.req.method = "POST")
              /\ (p.resp.mimetype = "application/json") <=> (p.req.method = "POST")
              /\ p.req.method # "POST" =>
                    p.resp = Finalize(p.req, HtmlPage("upload.html"))
        /\ (p.req.path = "/upload" /\ p.req.method \in {"PUT", "DELETE"}) =>
              p.handler = "" /\ p.resp.status = 405

C9_Witness ==
    \E p, q \in responses :
        /\ p.handler = "upload_file" /\ p.req.method = "HEAD"
        /\ q.req.path = "/upload" /\ q.req.method = "PUT"

====
